---- MODULE Spec2Model ----
(***************************************************************************)
(* Model of the BlueZ hardware-abstraction layer in src/src/ble_hal.c.     *)
(*                                                                         *)
(* The program state is the file's static globals.  Every GLib main-loop   *)
(* callback and every public API function is one atomic action (the HAL    *)
(* is single-threaded: all callbacks run on one GMainLoop).  The bus side  *)
(* (subscriptions registered on the connection, method calls in flight)    *)
(* is kept in environment variables.  The variable step records what the   *)
(* most recent action did, in program order: bus requests, callbacks       *)
(* invoked, registry updates and the value returned.                       *)
(*                                                                         *)
(* The environment:                                                        *)
(*  - g_bus_get_sync returns the shared bus connection; g_object_unref in  *)
(*    ble_hal_deinit drops the HAL's reference and closes nothing, so a    *)
(*    subscription the HAL has not unsubscribed stays registered and the   *)
(*    replies of calls in flight are still dispatched.                     *)
(*  - The name watcher calls its handlers only between g_bus_watch_name    *)
(*    and g_bus_unwatch_name; a repeated "appeared" is allowed, as         *)
(*    on_bluez_appeared provides for it.                                   *)
(*  - A signal's sender_name is an input of on_object_manager_signal.      *)
(***************************************************************************)
EXTENDS Integers, Sequences, FiniteSets, TLC

VARIABLES
    dbus_conn,                       \* 0 = NULL, 1 = a connection reference is held
    app_provided_loop,               \* 0 = NULL, 1 = the application's loop
    internal_loop,                   \* 0 = NULL, 1 = a loop created by the HAL
    bluez_name_watch_id,             \* 0 = none
    object_manager_signal_watch_id,  \* 0 = none
    active_adapter,                  \* BleHalAdapterInfo
    active_adapter_found,
    hal_global_config,               \* BleHalConfig
    hal_initialized,
    signal_subscriptions,            \* ids subscribed on the bus connection
    managed_objects_calls,           \* GetManagedObjects calls in flight
    set_power_calls,                 \* the SetPowerAsyncData allocated and not freed
    service_state,                   \* last name-owner notification handled
    step                             \* what the last action did

vars == <<dbus_conn, app_provided_loop, internal_loop, bluez_name_watch_id,
          object_manager_signal_watch_id, active_adapter, active_adapter_found,
          hal_global_config, hal_initialized, signal_subscriptions,
          managed_objects_calls, set_power_calls, service_state, step>>

halVars == <<dbus_conn, app_provided_loop, internal_loop, bluez_name_watch_id,
             hal_global_config, hal_initialized>>

(***************************************************************************)
(* Bounds of the model.                                                    *)
(***************************************************************************)
MaxSetPowerCalls == 1        \* SetPowerAsyncData allocated at once
MaxManagedObjectsCalls == 1  \* GetManagedObjects calls in flight at once

(***************************************************************************)
(* Values.                                                                 *)
(***************************************************************************)
NULL == "NULL"

BLE_HAL_SUCCESS == "BLE_HAL_SUCCESS"
BLE_HAL_ERROR_DBUS == "BLE_HAL_ERROR_DBUS"
BLE_HAL_ERROR_NOT_INITIALIZED == "BLE_HAL_ERROR_NOT_INITIALIZED"
BLE_HAL_ERROR_INVALID_PARAMS == "BLE_HAL_ERROR_INVALID_PARAMS"
BLE_HAL_PENDING == "BLE_HAL_PENDING"

BLE_HAL_EVENT_BLUEZ_SERVICE_UP == "BLE_HAL_EVENT_BLUEZ_SERVICE_UP"
BLE_HAL_EVENT_BLUEZ_SERVICE_DOWN == "BLE_HAL_EVENT_BLUEZ_SERVICE_DOWN"

\* sizeof the char arrays of BleHalAdapterInfo
PathSize == 256
AddressSize == 18
NameSize == 249

\* memset(&active_adapter, 0, sizeof(BleHalAdapterInfo))
ZeroAdapterInfo == [path |-> "", address |-> "", name |-> "", powered |-> FALSE]

\* memset(&hal_global_config, 0, sizeof(BleHalConfig))
ZeroConfig == [global_event_cb |-> NULL, global_event_user_data |-> NULL]

\* strncpy(dst, src, n) into a zeroed buffer: the first n characters of src
strncpy(src, n) == IF Len(src) > n THEN SubSeq(src, 1, n) ELSE src

\* One entry of the record of an action.
Ev(ev, path, num, status) == [ev |-> ev, path |-> path, num |-> num, status |-> status]

Step(op, ret, log) == [op |-> op, ret |-> ret, log |-> log]

(***************************************************************************)
(* Inputs.                                                                 *)
(***************************************************************************)
ADAPTER_IFACE == "org.bluez.Adapter1"
OTHER_IFACE == "org.bluez.GattManager1"
BLUEZ == "org.bluez"

Paths == {"/org/bluez/hci0", "/org/bluez/hci1"}

\* The configurations an application passes to ble_hal_init: <<>> is a NULL
\* pointer, <<c>> a pointer to the BleHalConfig c.
Configs ==
    << << ZeroConfig >>,
       << [global_event_cb |-> "event_cb", global_event_user_data |-> "event_ctx"] >> >>

Str(s) == [type |-> "s", val |-> s]
Bool(b) == [type |-> "b", val |-> IF b THEN "true" ELSE "false"]
g_variant_get_boolean(v) == v.val = "true"

\* a{sv} property dictionaries of an org.bluez.Adapter1 interface, as the
\* sequence of entries the iterator yields.
NoAddress == << <<"Name", Str("hci")>>, <<"Powered", Bool(TRUE)>> >>
EmptyAddress == << <<"Address", Str("")>>, <<"Powered", Bool(FALSE)>> >>
AddressNotString == << <<"Address", Bool(TRUE)>>, <<"Name", Str("hci")>> >>
Unpowered ==
    << <<"Address", Str("AA:BB:CC:DD:EE:FF")>>, <<"Name", Str("hci")>>,
       <<"Powered", Bool(FALSE)>> >>
Powered ==
    << <<"Powered", Bool(TRUE)>>, <<"Address", Str("AA:BB:CC:DD:EE:FF")>>,
       <<"Name", Str("hci")>> >>
\* an unknown property, an address longer than the buffer, Powered not a boolean
Odd ==
    << <<"Class", Str("0")>>, <<"Address", Str("AA:BB:CC:DD:EE:FF:00:11")>>,
       <<"Powered", Str("true")>>, <<"Name", Str("hci")>> >>

AdapterProps == {NoAddress, EmptyAddress, AddressNotString, Unpowered, Powered, Odd}

\* a{sa{sv}} dictionaries: interface name -> properties
Adapter(p) == << <<ADAPTER_IFACE, p>> >>
NoAdapter == << <<OTHER_IFACE, <<>> >> >>
InterfaceDicts ==
    { Adapter(p) : p \in AdapterProps }
    \cup { NoAdapter }
    \cup { NoAdapter \o Adapter(Unpowered) }

\* <<adapter_path, power_on, cb>> of the application's calls of
\* ble_hal_set_adapter_power
SetPowerArgs ==
    { <<NULL, TRUE, "app_result_cb">>,
      <<NULL, TRUE, NULL>>,
      <<"", TRUE, "app_result_cb">>,
      <<"/org/bluez/hci0", TRUE, "app_result_cb">>,
      <<"/org/bluez/hci0", FALSE, NULL>> }

Init ==
    /\ dbus_conn = 0
    /\ app_provided_loop = 0
    /\ internal_loop = 0
    /\ bluez_name_watch_id = 0
    /\ object_manager_signal_watch_id = 0
    /\ active_adapter = ZeroAdapterInfo
    /\ active_adapter_found = FALSE
    /\ hal_global_config = ZeroConfig
    /\ hal_initialized = FALSE
    /\ signal_subscriptions = {}
    /\ managed_objects_calls = 0
    /\ set_power_calls = {}
    /\ service_state = "Down"
    /\ step = Step("start", "", <<>>)

\* ble_hal_init on a HAL that is not initialized (lines 340-388).
ble_hal_init_first(config, loop, bus, watch_id) ==
    IF config = <<>>
    THEN /\ step' = Step("ble_hal_init", BLE_HAL_ERROR_INVALID_PARAMS, <<>>)
         /\ UNCHANGED <<halVars, object_manager_signal_watch_id, active_adapter,
                        active_adapter_found, signal_subscriptions,
                        managed_objects_calls, set_power_calls, service_state>>
    ELSE IF bus # "ok"
    THEN /\ hal_global_config' = config[1]
         /\ dbus_conn' = 0
         /\ step' = Step("ble_hal_init", BLE_HAL_ERROR_DBUS, <<>>)
         /\ UNCHANGED <<app_provided_loop, internal_loop, bluez_name_watch_id,
                        hal_initialized, object_manager_signal_watch_id,
                        active_adapter, active_adapter_found, signal_subscriptions,
                        managed_objects_calls, set_power_calls, service_state>>
    ELSE IF watch_id = 0
    THEN /\ hal_global_config' = config[1]
         /\ dbus_conn' = 0
         /\ app_provided_loop' = IF loop # 0 THEN loop ELSE app_provided_loop
         /\ internal_loop' = 0
         /\ bluez_name_watch_id' = 0
         /\ step' = Step("ble_hal_init", BLE_HAL_ERROR_DBUS, <<>>)
         /\ UNCHANGED <<hal_initialized, object_manager_signal_watch_id,
                        active_adapter, active_adapter_found, signal_subscriptions,
                        managed_objects_calls, set_power_calls, service_state>>
    ELSE /\ hal_global_config' = config[1]
         /\ dbus_conn' = 1
         /\ app_provided_loop' = IF loop # 0 THEN loop ELSE app_provided_loop
         /\ internal_loop' = IF loop # 0 THEN internal_loop ELSE 1
         /\ bluez_name_watch_id' = watch_id
         /\ hal_initialized' = TRUE
         /\ step' = Step("ble_hal_init", BLE_HAL_SUCCESS, <<>>)
         /\ UNCHANGED <<object_manager_signal_watch_id, active_adapter,
                        active_adapter_found, signal_subscriptions,
                        managed_objects_calls, set_power_calls, service_state>>

\* A bug: the configuration is stored before the check of hal_initialized.
ble_hal_init_stores_first(config, loop, bus, watch_id) ==
    IF hal_initialized
    THEN /\ hal_global_config' = IF config = <<>> THEN hal_global_config ELSE config[1]
         /\ step' = Step("ble_hal_init", BLE_HAL_SUCCESS,
                         <<Ev("already_initialized",
                              IF config = <<>> THEN NULL ELSE config[1].global_event_cb,
                              loop, "")>>)
         /\ UNCHANGED <<dbus_conn, app_provided_loop, internal_loop,
                        bluez_name_watch_id, hal_initialized,
                        object_manager_signal_watch_id, active_adapter,
                        active_adapter_found, signal_subscriptions,
                        managed_objects_calls, set_power_calls, service_state>>
    ELSE ble_hal_init_first(config, loop, bus, watch_id)

(***************************************************************************)
(* ble_hal_init(config, loop).  bus is the outcome of g_bus_get_sync       *)
(* ("ok", "error": GError set, "null": NULL without a GError), watch_id    *)
(* the value g_bus_watch_name returns.                                     *)
(***************************************************************************)
ble_hal_init(config, loop, bus, watch_id) ==
    IF hal_initialized
    THEN /\ step' = Step("ble_hal_init", BLE_HAL_SUCCESS,
                         <<Ev("already_initialized",
                              IF config = <<>> THEN NULL ELSE config[1].global_event_cb,
                              loop, "")>>)
         /\ UNCHANGED <<halVars, object_manager_signal_watch_id, active_adapter,
                        active_adapter_found, signal_subscriptions,
                        managed_objects_calls, set_power_calls, service_state>>
    ELSE ble_hal_init_first(config, loop, bus, watch_id)

\* <<config, loop, outcome of g_bus_get_sync, value returned by g_bus_watch_name>>
\* of the application's calls of ble_hal_init
InitArgs ==
    { << <<>>, 0, "ok", 1 >>,
      << Configs[1], 0, "ok", 1 >>,
      << Configs[2], 0, "ok", 1 >>,
      << Configs[2], 1, "ok", 1 >>,
      << Configs[2], 1, "ok", 0 >>,
      << Configs[2], 0, "ok", 0 >>,
      << Configs[2], 0, "error", 0 >>,
      << Configs[1], 1, "null", 0 >> }

HalInit ==
    \E args \in InitArgs :
        ble_hal_init(args[1], args[2], args[3], args[4])

\* A bug: the check of hal_initialized is missing.
ble_hal_deinit_unguarded ==
    /\ bluez_name_watch_id' = 0
    /\ dbus_conn' = 0
    /\ internal_loop' = 0
    /\ app_provided_loop' = 0
    /\ hal_global_config' = ZeroConfig
    /\ hal_initialized' = FALSE
    /\ step' = Step("ble_hal_deinit", "",
           <<Ev("g_bus_unwatch_name", "", bluez_name_watch_id, "")>>)
    /\ UNCHANGED <<object_manager_signal_watch_id, active_adapter,
                   active_adapter_found, signal_subscriptions,
                   managed_objects_calls, set_power_calls, service_state>>

\* A bug: the watch of the name org.bluez is not removed.
ble_hal_deinit_keeps_watch ==
    IF ~hal_initialized
    THEN /\ step' = Step("ble_hal_deinit", "", <<>>)
         /\ UNCHANGED <<halVars, object_manager_signal_watch_id, active_adapter,
                        active_adapter_found, signal_subscriptions,
                        managed_objects_calls, set_power_calls, service_state>>
    ELSE /\ bluez_name_watch_id' = bluez_name_watch_id
         /\ dbus_conn' = 0
         /\ internal_loop' = 0
         /\ app_provided_loop' = 0
         /\ hal_global_config' = ZeroConfig
         /\ hal_initialized' = FALSE
         /\ step' = Step("ble_hal_deinit", "",
                <<Ev("g_bus_unwatch_name", "", bluez_name_watch_id, "")>>)
         /\ UNCHANGED <<object_manager_signal_watch_id, active_adapter,
                        active_adapter_found, signal_subscriptions,
                        managed_objects_calls, set_power_calls, service_state>>

(***************************************************************************)
(* ble_hal_deinit()                                                        *)
(***************************************************************************)
ble_hal_deinit ==
    IF ~hal_initialized
    THEN /\ step' = Step("ble_hal_deinit", "", <<>>)
         /\ UNCHANGED <<halVars, object_manager_signal_watch_id, active_adapter,
                        active_adapter_found, signal_subscriptions,
                        managed_objects_calls, set_power_calls, service_state>>
    ELSE /\ bluez_name_watch_id' = 0
         /\ dbus_conn' = 0
         /\ internal_loop' = 0
         /\ app_provided_loop' = 0
         /\ hal_global_config' = ZeroConfig
         /\ hal_initialized' = FALSE
         /\ step' = Step("ble_hal_deinit", "",
                <<Ev("g_bus_unwatch_name", "", bluez_name_watch_id, "")>>)
         /\ UNCHANGED <<object_manager_signal_watch_id, active_adapter,
                        active_adapter_found, signal_subscriptions,
                        managed_objects_calls, set_power_calls, service_state>>

HalDeinit == ble_hal_deinit

(***************************************************************************)
(* ble_hal_set_adapter_power(adapter_path, power_on, cb, user_data), as a  *)
(* function of the SetPowerAsyncData allocated so far.  The result holds   *)
(* the value returned, what the call did, and the allocations after it.    *)
(* g_dbus_connection_call() refuses a path that is no D-Bus object path    *)
(* (g_return_if_fail): nothing is sent and its callback never runs.        *)
(***************************************************************************)
g_variant_is_object_path(p) == Len(p) > 0 /\ SubSeq(p, 1, 1) = "/"

\* The smallest id no live SetPowerAsyncData carries.
NewCallId(calls) ==
    CHOOSE id \in 1..(Cardinality(calls) + 1) : \A c \in calls : c.id # id

\* A bug: the error is returned without telling the caller's callback.
rejected_silently(calls, cb, status) ==
    [ret |-> status, log |-> <<>>, calls |-> calls]

\* if (cb) cb(status, user_data); return status;
rejected(calls, cb, status) ==
    [ret |-> status,
     log |-> IF cb # NULL THEN <<Ev("result_cb", cb, 0, status)>> ELSE <<>>,
     calls |-> calls]

ble_hal_set_adapter_power(calls, adapter_path, power_on, cb, user_data) ==
    IF ~hal_initialized \/ dbus_conn = 0
    THEN rejected(calls, cb, BLE_HAL_ERROR_NOT_INITIALIZED)
    ELSE IF adapter_path = NULL
    THEN rejected(calls, cb, BLE_HAL_ERROR_INVALID_PARAMS)
    ELSE LET id == NewCallId(calls)
             sent == g_variant_is_object_path(adapter_path)
             async_data == [id |-> id,
                            app_callback |-> cb,
                            app_user_data |-> user_data,
                            adapter_path |-> adapter_path,
                            power_on |-> power_on,
                            sent |-> sent]
         IN [ret |-> BLE_HAL_PENDING,
             log |-> <<Ev("g_new", "SetPowerAsyncData", id, "")>>
                     \o (IF sent
                         THEN <<Ev("call_Set_Powered", adapter_path, id,
                                   IF power_on THEN "true" ELSE "false")>>
                         ELSE <<>>),
             calls |-> calls \cup {async_data}]

\* The application calls ble_hal_set_adapter_power.
SetAdapterPower ==
    \E args \in SetPowerArgs :
        LET adapter_path == args[1]
            cb == args[3]
            r == ble_hal_set_adapter_power(set_power_calls, adapter_path, args[2],
                                           cb, "app_ctx")
        IN /\ Cardinality(r.calls) <= MaxSetPowerCalls
           /\ set_power_calls' = r.calls
           /\ step' = Step("ble_hal_set_adapter_power", r.ret,
                           <<Ev("args", adapter_path, 0, cb)>> \o r.log
                           \o <<Ev("return", "", 0, r.ret)>>)
           /\ UNCHANGED <<halVars, object_manager_signal_watch_id, active_adapter,
                          active_adapter_found, signal_subscriptions,
                          managed_objects_calls, service_state>>

\* A bug: the error of the reply is not passed on.
on_set_power_reply_ignores_error(data, error) ==
    /\ set_power_calls' = set_power_calls \ {data}
    /\ step' = Step("on_set_power_reply", "",
                    <<Ev("reply", data.adapter_path, data.id,
                         IF error THEN "error" ELSE "ok")>>
                    \o (IF data.app_callback # NULL
                        THEN <<Ev("result_cb", data.app_callback, data.id,
                                  BLE_HAL_SUCCESS)>>
                        ELSE <<>>)
                    \o <<Ev("g_free", "SetPowerAsyncData", data.id, "")>>)
    /\ UNCHANGED <<halVars, object_manager_signal_watch_id, active_adapter,
                   active_adapter_found, signal_subscriptions,
                   managed_objects_calls, service_state>>

\* A bug: a failed call is freed without telling the caller's callback.
on_set_power_reply_drops_failed(data, error) ==
    /\ set_power_calls' = set_power_calls \ {data}
    /\ step' = Step("on_set_power_reply", "",
                    <<Ev("reply", data.adapter_path, data.id,
                         IF error THEN "error" ELSE "ok")>>
                    \o (IF data.app_callback # NULL /\ ~error
                        THEN <<Ev("result_cb", data.app_callback, data.id,
                                  BLE_HAL_SUCCESS)>>
                        ELSE <<>>)
                    \o <<Ev("g_free", "SetPowerAsyncData", data.id, "")>>)
    /\ UNCHANGED <<halVars, object_manager_signal_watch_id, active_adapter,
                   active_adapter_found, signal_subscriptions,
                   managed_objects_calls, service_state>>

(***************************************************************************)
(* on_set_power_reply: the reply (error = FALSE) or error of the call that *)
(* carries data as its user data.  GLib runs the callback of a call once.  *)
(***************************************************************************)
on_set_power_reply(data, error) ==
    LET hal_err == IF error THEN BLE_HAL_ERROR_DBUS ELSE BLE_HAL_SUCCESS
    IN /\ set_power_calls' = set_power_calls \ {data}
       /\ step' = Step("on_set_power_reply", "",
                       <<Ev("reply", data.adapter_path, data.id,
                            IF error THEN "error" ELSE "ok")>>
                       \o (IF data.app_callback # NULL
                           THEN <<Ev("result_cb", data.app_callback, data.id, hal_err)>>
                           ELSE <<>>)
                       \o <<Ev("g_free", "SetPowerAsyncData", data.id, "")>>)
       /\ UNCHANGED <<halVars, object_manager_signal_watch_id, active_adapter,
                      active_adapter_found, signal_subscriptions,
                      managed_objects_calls, service_state>>

SetPowerReply ==
    \E data \in set_power_calls, error \in BOOLEAN :
        /\ data.sent
        /\ on_set_power_reply(data, error)

(***************************************************************************)
(* The discovery handlers thread the registry, the allocations and the     *)
(* record of the action through their loops as one value:                  *)
(*   [found, adapter, calls, log].                                         *)
(***************************************************************************)
Scan(found, adapter, calls, log) ==
    [found |-> found, adapter |-> adapter, calls |-> calls, log |-> log]

\* The while loop over the a{sv} properties (lines 226-237): entry i onwards
\* applied to new_adapter_info.
RECURSIVE read_properties(_, _, _)
read_properties(info, properties, i) ==
    IF i > Len(properties) THEN info
    ELSE LET prop_name == properties[i][1]
             prop_value == properties[i][2]
             next ==
                 IF prop_name = "Address" /\ prop_value.type = "s"
                 THEN [info EXCEPT !.address = strncpy(prop_value.val, AddressSize - 1)]
                 ELSE IF prop_name = "Name" /\ prop_value.type = "s"
                 THEN [info EXCEPT !.name = strncpy(prop_value.val, NameSize - 1)]
                 ELSE IF prop_name = "Powered" /\ prop_value.type = "b"
                 THEN [info EXCEPT !.powered = g_variant_get_boolean(prop_value)]
                 ELSE info
         IN read_properties(next, properties, i + 1)

\* A bug: the candidate is stored without the check of its address.
process_adapter_interface_unchecked(st, object_path, properties) ==
    IF st.found
    THEN [st EXCEPT !.log = Append(@, Ev("ignored", object_path, 0, "already active"))]
    ELSE LET new_adapter_info ==
                 read_properties([ZeroAdapterInfo EXCEPT
                                     !.path = strncpy(object_path, PathSize - 1)],
                                 properties, 1)
         IN Scan(TRUE, new_adapter_info, st.calls,
                 Append(st.log, Ev("registered", new_adapter_info.path, 0,
                                   IF new_adapter_info.powered THEN "on" ELSE "off")))

process_adapter_interface(st, object_path, properties) ==
    IF st.found
    THEN [st EXCEPT !.log = Append(@, Ev("ignored", object_path, 0, "already active"))]
    ELSE LET new_adapter_info ==
                 read_properties([ZeroAdapterInfo EXCEPT
                                     !.path = strncpy(object_path, PathSize - 1)],
                                 properties, 1)
         IN IF Len(new_adapter_info.address) > 0
            THEN LET registered == Ev("registered", new_adapter_info.path, 0,
                                      IF new_adapter_info.powered THEN "on" ELSE "off")
                 IN IF ~new_adapter_info.powered
                    THEN LET r == ble_hal_set_adapter_power(
                                      st.calls, new_adapter_info.path, TRUE,
                                      "generic_result_cb", "SetPowerOn")
                         IN Scan(TRUE, new_adapter_info, r.calls,
                                 Append(st.log, registered) \o r.log)
                    ELSE Scan(TRUE, new_adapter_info, st.calls,
                              Append(st.log, registered))
            ELSE [st EXCEPT !.log = Append(@, Ev("discarded", object_path, 0,
                                                 "no address"))]

\* A bug: an adapter that is added later replaces the active one.
RECURSIVE added_interfaces_last_wins(_, _, _, _)
added_interfaces_last_wins(st, actual_object_path, interfaces_and_properties, i) ==
    IF i > Len(interfaces_and_properties) THEN st
    ELSE LET interface_name == interfaces_and_properties[i][1]
             properties == interfaces_and_properties[i][2]
             next ==
                 IF interface_name = ADAPTER_IFACE
                 THEN process_adapter_interface([st EXCEPT !.found = FALSE],
                                                actual_object_path, properties)
                 ELSE st
         IN added_interfaces_last_wins(next, actual_object_path,
                                       interfaces_and_properties, i + 1)

\* The while loop over the a{sa{sv}} interfaces of an InterfacesAdded signal
\* (lines 83-93).
RECURSIVE added_interfaces(_, _, _, _)
added_interfaces(st, actual_object_path, interfaces_and_properties, i) ==
    IF i > Len(interfaces_and_properties) THEN st
    ELSE LET interface_name == interfaces_and_properties[i][1]
             properties == interfaces_and_properties[i][2]
             next ==
                 IF interface_name = ADAPTER_IFACE
                 THEN IF ~st.found
                      THEN process_adapter_interface(st, actual_object_path, properties)
                      ELSE [st EXCEPT !.log = Append(@, Ev("ignored", actual_object_path,
                                                           0, "one already active"))]
                 ELSE st
         IN added_interfaces(next, actual_object_path, interfaces_and_properties, i + 1)

\* A bug: any removed interface of the active path empties the registry.
RECURSIVE removed_interfaces_any(_, _, _)
removed_interfaces_any(st, interfaces_array, i) ==
    IF i > Len(interfaces_array) THEN st
    ELSE Scan(FALSE, ZeroAdapterInfo, st.calls,
              Append(st.log, Ev("cleared", st.adapter.path, 0, "removed")))

\* The while loop over the removed interface names (lines 107-116).
RECURSIVE removed_interfaces(_, _, _)
removed_interfaces(st, interfaces_array, i) ==
    IF i > Len(interfaces_array) THEN st
    ELSE IF interfaces_array[i] = ADAPTER_IFACE
    THEN Scan(FALSE, ZeroAdapterInfo, st.calls,
              Append(st.log, Ev("cleared", st.adapter.path, 0, "removed")))
    ELSE removed_interfaces(st, interfaces_array, i + 1)

\* What a signal carries, for the record of the action: an a{sv} with an
\* Address that is a non-empty string; an InterfacesAdded payload with such an
\* org.bluez.Adapter1 entry, or an InterfacesRemoved payload that names
\* org.bluez.Adapter1.
has_address(properties) ==
    \E k \in 1..Len(properties) :
        /\ properties[k][1] = "Address"
        /\ properties[k][2].type = "s"
        /\ properties[k][2].val # ""

carries_adapter(signal_name, payload) ==
    IF signal_name = "InterfacesAdded"
    THEN \E i \in 1..Len(payload) :
             payload[i][1] = ADAPTER_IFACE /\ has_address(payload[i][2])
    ELSE \E i \in 1..Len(payload) : payload[i] = ADAPTER_IFACE

(***************************************************************************)
(* on_object_manager_signal: a signal of org.freedesktop.DBus.ObjectManager*)
(* delivered to the subscription.  payload is the a{sa{sv}} of             *)
(* InterfacesAdded or the "as" of InterfacesRemoved.                       *)
(***************************************************************************)
on_object_manager_signal(sender_name, signal_name, actual_object_path, payload) ==
    LET st0 == Scan(active_adapter_found, active_adapter, set_power_calls,
                    <<Ev(signal_name, actual_object_path,
                         IF carries_adapter(signal_name, payload) THEN 1 ELSE 0,
                         sender_name)>>)
        st == IF sender_name # BLUEZ THEN st0
              ELSE IF signal_name = "InterfacesAdded"
              THEN added_interfaces(st0, actual_object_path, payload, 1)
              ELSE IF signal_name = "InterfacesRemoved"
              THEN IF st0.found /\ actual_object_path = st0.adapter.path
                   THEN removed_interfaces(st0, payload, 1)
                   ELSE st0
              ELSE st0
    IN /\ Cardinality(st.calls) <= MaxSetPowerCalls
       /\ active_adapter_found' = st.found
       /\ active_adapter' = st.adapter
       /\ set_power_calls' = st.calls
       /\ step' = Step("on_object_manager_signal", "", st.log)
       /\ UNCHANGED <<halVars, object_manager_signal_watch_id, signal_subscriptions,
                      managed_objects_calls, service_state>>

\* <<sender_name, object path, a{sa{sv}}>> of the InterfacesAdded signals
AddedSignals ==
    { <<BLUEZ, "/org/bluez/hci0", d>> : d \in InterfaceDicts }
    \cup { <<BLUEZ, "/org/bluez/hci1", Adapter(p)>> : p \in {Unpowered, Powered} }
    \cup { <<":1.42", "/org/bluez/hci0", Adapter(Unpowered)>> }

\* <<sender_name, object path, as>> of the InterfacesRemoved signals
RemovedSignals ==
    { <<BLUEZ, "/org/bluez/hci0", n>> :
        n \in { <<ADAPTER_IFACE>>, <<OTHER_IFACE>>, <<OTHER_IFACE, ADAPTER_IFACE>> } }
    \cup { <<BLUEZ, "/org/bluez/hci1", <<ADAPTER_IFACE>> >>,
            <<":1.42", "/org/bluez/hci0", <<ADAPTER_IFACE>> >> }

InterfacesAdded ==
    \E sig \in AddedSignals :
        /\ signal_subscriptions # {}
        /\ on_object_manager_signal(sig[1], "InterfacesAdded", sig[2], sig[3])

InterfacesRemoved ==
    \E sig \in RemovedSignals :
        /\ signal_subscriptions # {}
        /\ on_object_manager_signal(sig[1], "InterfacesRemoved", sig[2], sig[3])

\* A bug: the check of the connection is inverted.
initial_object_scan_inverted(conn, watch_id, in_flight, log) ==
    IF conn # 0 THEN [in_flight |-> in_flight, log |-> log]
    ELSE [in_flight |-> in_flight + 1,
          log |-> Append(log, Ev("call_GetManagedObjects", "/", watch_id, ""))]

(***************************************************************************)
(* initial_object_scan: [calls in flight, record] after it.                *)
(***************************************************************************)
initial_object_scan(conn, watch_id, in_flight, log) ==
    IF conn = 0 THEN [in_flight |-> in_flight, log |-> log]
    ELSE [in_flight |-> in_flight + 1,
          log |-> Append(log, Ev("call_GetManagedObjects", "/", watch_id, ""))]

\* An id g_dbus_connection_signal_subscribe has not handed out before.
NewSubscriptionId ==
    CHOOSE id \in 1..(Cardinality(signal_subscriptions) + 2) :
        id \notin signal_subscriptions \cup {object_manager_signal_watch_id}

\* A bug: the application is told of the service before the subscription.
on_bluez_appeared_notify_first(subscribed) ==
    LET old == object_manager_signal_watch_id
        release == old > 0 /\ dbus_conn # 0
        log1 == <<Ev("name_appeared", BLUEZ, old, "")>>
                \o (IF release THEN <<Ev("unsubscribe", "", old, "")>> ELSE <<>>)
        subs1 == IF release THEN signal_subscriptions \ {old} ELSE signal_subscriptions
        log2 == Append(log1, Ev("cleared", active_adapter.path, 0, "appeared"))
        log3 == IF hal_global_config.global_event_cb # NULL
                THEN Append(log2, Ev("global_event_cb",
                                     hal_global_config.global_event_cb, 0,
                                     BLE_HAL_EVENT_BLUEZ_SERVICE_UP))
                ELSE log2
        watch_id == IF dbus_conn # 0 THEN subscribed ELSE 0
        log4 == IF dbus_conn # 0
                THEN Append(log3, Ev("subscribe", "/", subscribed,
                                     IF subscribed = 0 THEN "failed" ELSE "ok"))
                ELSE log3
        subs3 == IF watch_id # 0 THEN subs1 \cup {watch_id} ELSE subs1
        scan == IF watch_id # 0
                THEN initial_object_scan(dbus_conn, watch_id, managed_objects_calls, log4)
                ELSE [in_flight |-> managed_objects_calls, log |-> log4]
    IN /\ scan.in_flight <= MaxManagedObjectsCalls
       /\ object_manager_signal_watch_id' = watch_id
       /\ signal_subscriptions' = subs3
       /\ active_adapter_found' = FALSE
       /\ active_adapter' = ZeroAdapterInfo
       /\ managed_objects_calls' = scan.in_flight
       /\ service_state' = "Up"
       /\ step' = Step("on_bluez_appeared", "", scan.log)
       /\ UNCHANGED <<halVars, set_power_calls>>

\* A bug: the subscription of the earlier cycle is not released.
on_bluez_appeared_keeps_old(subscribed) ==
    LET old == object_manager_signal_watch_id
        release == FALSE
        log1 == <<Ev("name_appeared", BLUEZ, old, "")>>
                \o (IF release THEN <<Ev("unsubscribe", "", old, "")>> ELSE <<>>)
        subs1 == IF release THEN signal_subscriptions \ {old} ELSE signal_subscriptions
        log2 == Append(log1, Ev("cleared", active_adapter.path, 0, "appeared"))
        watch_id == IF dbus_conn # 0 THEN subscribed ELSE 0
        log3 == IF dbus_conn # 0
                THEN Append(log2, Ev("subscribe", "/", subscribed,
                                     IF subscribed = 0 THEN "failed" ELSE "ok"))
                ELSE log2
        subs3 == IF watch_id # 0 THEN subs1 \cup {watch_id} ELSE subs1
        scan == IF watch_id # 0
                THEN initial_object_scan(dbus_conn, watch_id, managed_objects_calls, log3)
                ELSE [in_flight |-> managed_objects_calls, log |-> log3]
        log5 == IF hal_global_config.global_event_cb # NULL
                THEN Append(scan.log, Ev("global_event_cb",
                                         hal_global_config.global_event_cb, watch_id,
                                         BLE_HAL_EVENT_BLUEZ_SERVICE_UP))
                ELSE scan.log
    IN /\ scan.in_flight <= MaxManagedObjectsCalls
       /\ object_manager_signal_watch_id' = watch_id
       /\ signal_subscriptions' = subs3
       /\ active_adapter_found' = FALSE
       /\ active_adapter' = ZeroAdapterInfo
       /\ managed_objects_calls' = scan.in_flight
       /\ service_state' = "Up"
       /\ step' = Step("on_bluez_appeared", "", log5)
       /\ UNCHANGED <<halVars, set_power_calls>>

\* A bug: a failed subscription ends the handler, no event is delivered.
on_bluez_appeared_fails_silently(subscribed) ==
    LET old == object_manager_signal_watch_id
        release == old > 0 /\ dbus_conn # 0
        log1 == <<Ev("name_appeared", BLUEZ, old, "")>>
                \o (IF release THEN <<Ev("unsubscribe", "", old, "")>> ELSE <<>>)
        subs1 == IF release THEN signal_subscriptions \ {old} ELSE signal_subscriptions
        log2 == Append(log1, Ev("cleared", active_adapter.path, 0, "appeared"))
        watch_id == IF dbus_conn # 0 THEN subscribed ELSE 0
        log3 == IF dbus_conn # 0
                THEN Append(log2, Ev("subscribe", "/", subscribed,
                                     IF subscribed = 0 THEN "failed" ELSE "ok"))
                ELSE log2
        subs3 == IF watch_id # 0 THEN subs1 \cup {watch_id} ELSE subs1
        scan == IF watch_id # 0
                THEN initial_object_scan(dbus_conn, watch_id, managed_objects_calls, log3)
                ELSE [in_flight |-> managed_objects_calls, log |-> log3]
        log5 == IF hal_global_config.global_event_cb # NULL /\ watch_id # 0
                THEN Append(scan.log, Ev("global_event_cb",
                                         hal_global_config.global_event_cb, watch_id,
                                         BLE_HAL_EVENT_BLUEZ_SERVICE_UP))
                ELSE scan.log
    IN /\ scan.in_flight <= MaxManagedObjectsCalls
       /\ object_manager_signal_watch_id' = watch_id
       /\ signal_subscriptions' = subs3
       /\ active_adapter_found' = FALSE
       /\ active_adapter' = ZeroAdapterInfo
       /\ managed_objects_calls' = scan.in_flight
       /\ service_state' = "Up"
       /\ step' = Step("on_bluez_appeared", "", log5)
       /\ UNCHANGED <<halVars, set_power_calls>>

(***************************************************************************)
(* on_bluez_appeared.  subscribed is the value returned by                 *)
(* g_dbus_connection_signal_subscribe (0 = failure).                       *)
(***************************************************************************)
on_bluez_appeared(subscribed) ==
    LET old == object_manager_signal_watch_id
        release == old > 0 /\ dbus_conn # 0
        log1 == <<Ev("name_appeared", BLUEZ, old, "")>>
                \o (IF release THEN <<Ev("unsubscribe", "", old, "")>> ELSE <<>>)
        subs1 == IF release THEN signal_subscriptions \ {old} ELSE signal_subscriptions
        log2 == Append(log1, Ev("cleared", active_adapter.path, 0, "appeared"))
        watch_id == IF dbus_conn # 0 THEN subscribed ELSE 0
        log3 == IF dbus_conn # 0
                THEN Append(log2, Ev("subscribe", "/", subscribed,
                                     IF subscribed = 0 THEN "failed" ELSE "ok"))
                ELSE log2
        subs3 == IF watch_id # 0 THEN subs1 \cup {watch_id} ELSE subs1
        scan == IF watch_id # 0
                THEN initial_object_scan(dbus_conn, watch_id, managed_objects_calls, log3)
                ELSE [in_flight |-> managed_objects_calls, log |-> log3]
        log5 == IF hal_global_config.global_event_cb # NULL
                THEN Append(scan.log, Ev("global_event_cb",
                                         hal_global_config.global_event_cb, watch_id,
                                         BLE_HAL_EVENT_BLUEZ_SERVICE_UP))
                ELSE scan.log
    IN /\ scan.in_flight <= MaxManagedObjectsCalls
       /\ object_manager_signal_watch_id' = watch_id
       /\ signal_subscriptions' = subs3
       /\ active_adapter_found' = FALSE
       /\ active_adapter' = ZeroAdapterInfo
       /\ managed_objects_calls' = scan.in_flight
       /\ service_state' = "Up"
       /\ step' = Step("on_bluez_appeared", "", log5)
       /\ UNCHANGED <<halVars, set_power_calls>>

BluezAppeared ==
    \E subscribed \in {0, NewSubscriptionId} :
        /\ bluez_name_watch_id > 0
        /\ on_bluez_appeared(subscribed)

\* A bug: the active adapter survives the loss of the service.
on_bluez_vanished_keeps_adapter ==
    LET old == object_manager_signal_watch_id
        release == old > 0 /\ dbus_conn # 0
        log1 == <<Ev("name_vanished", BLUEZ, old, "")>>
                \o (IF release THEN <<Ev("unsubscribe", "", old, "")>> ELSE <<>>)
        log3 == IF hal_global_config.global_event_cb # NULL
                THEN Append(log1, Ev("global_event_cb",
                                     hal_global_config.global_event_cb,
                                     IF release THEN 0 ELSE old,
                                     BLE_HAL_EVENT_BLUEZ_SERVICE_DOWN))
                ELSE log1
    IN /\ object_manager_signal_watch_id' = IF release THEN 0 ELSE old
       /\ signal_subscriptions' =
              IF release THEN signal_subscriptions \ {old} ELSE signal_subscriptions
       /\ service_state' = "Down"
       /\ step' = Step("on_bluez_vanished", "", log3)
       /\ UNCHANGED <<halVars, managed_objects_calls, set_power_calls,
                      active_adapter_found, active_adapter>>

(***************************************************************************)
(* on_bluez_vanished                                                       *)
(***************************************************************************)
on_bluez_vanished ==
    LET old == object_manager_signal_watch_id
        release == old > 0 /\ dbus_conn # 0
        log1 == <<Ev("name_vanished", BLUEZ, old, "")>>
                \o (IF release THEN <<Ev("unsubscribe", "", old, "")>> ELSE <<>>)
        log2 == IF active_adapter_found
                THEN Append(log1, Ev("cleared", active_adapter.path, 0, "vanished"))
                ELSE log1
        log3 == IF hal_global_config.global_event_cb # NULL
                THEN Append(log2, Ev("global_event_cb",
                                     hal_global_config.global_event_cb,
                                     IF release THEN 0 ELSE old,
                                     BLE_HAL_EVENT_BLUEZ_SERVICE_DOWN))
                ELSE log2
    IN /\ object_manager_signal_watch_id' = IF release THEN 0 ELSE old
       /\ signal_subscriptions' =
              IF release THEN signal_subscriptions \ {old} ELSE signal_subscriptions
       /\ active_adapter_found' = IF active_adapter_found THEN FALSE ELSE active_adapter_found
       /\ active_adapter' = IF active_adapter_found THEN ZeroAdapterInfo ELSE active_adapter
       /\ service_state' = "Down"
       /\ step' = Step("on_bluez_vanished", "", log3)
       /\ UNCHANGED <<halVars, managed_objects_calls, set_power_calls>>

BluezVanished ==
    /\ bluez_name_watch_id > 0
    /\ on_bluez_vanished

\* A bug: the enumeration reply registers an adapter over the active one.
RECURSIVE object_interfaces_last_wins(_, _, _, _)
object_interfaces_last_wins(st, object_path, ifaces_and_props_dict, i) ==
    IF i > Len(ifaces_and_props_dict) THEN st
    ELSE LET iface_name == ifaces_and_props_dict[i][1]
             props_dict == ifaces_and_props_dict[i][2]
             next ==
                 IF iface_name = ADAPTER_IFACE
                 THEN process_adapter_interface([st EXCEPT !.found = FALSE],
                                                object_path, props_dict)
                 ELSE st
         IN object_interfaces_last_wins(next, object_path, ifaces_and_props_dict, i + 1)

\* The inner while loop of the reply handler (lines 289-297).
RECURSIVE object_interfaces(_, _, _, _)
object_interfaces(st, object_path, ifaces_and_props_dict, i) ==
    IF i > Len(ifaces_and_props_dict) THEN st
    ELSE LET iface_name == ifaces_and_props_dict[i][1]
             props_dict == ifaces_and_props_dict[i][2]
             next ==
                 IF iface_name = ADAPTER_IFACE /\ ~st.found
                 THEN process_adapter_interface(st, object_path, props_dict)
                 ELSE st
         IN object_interfaces(next, object_path, ifaces_and_props_dict, i + 1)

\* What a reply carries, for the record of the action: the path of the first
\* object, from entry i on, with an org.bluez.Adapter1 interface that has a
\* non-empty string Address; "" if there is none.
RECURSIVE first_adapter(_, _)
first_adapter(dict_entries, i) ==
    IF i > Len(dict_entries) THEN ""
    ELSE IF carries_adapter("InterfacesAdded", dict_entries[i][2])
    THEN dict_entries[i][1]
    ELSE first_adapter(dict_entries, i + 1)

\* A bug: the enumeration stops after the first object.
RECURSIVE managed_objects_first_only(_, _, _)
managed_objects_first_only(st, dict_entries, i) ==
    IF i > Len(dict_entries) \/ i > 1 THEN st
    ELSE managed_objects_first_only(
             object_interfaces(st, dict_entries[i][1], dict_entries[i][2], 1),
             dict_entries, i + 1)

\* The outer while loop over the managed objects (lines 283-299).
RECURSIVE managed_objects(_, _, _)
managed_objects(st, dict_entries, i) ==
    IF i > Len(dict_entries) THEN st
    ELSE managed_objects(
             object_interfaces(st, dict_entries[i][1], dict_entries[i][2], 1),
             dict_entries, i + 1)

\* A bug: a failed enumeration empties the registry.
on_get_managed_objects_reply_error_clears(error, dict_entries) ==
    LET st0 == Scan(active_adapter_found, active_adapter, set_power_calls,
                    <<Ev("GetManagedObjects_reply",
                         IF error THEN "" ELSE first_adapter(dict_entries, 1), 0,
                         IF error THEN "error" ELSE "ok")>>)
        st == IF error
              THEN Scan(FALSE, ZeroAdapterInfo, st0.calls,
                        Append(st0.log, Ev("cleared", st0.adapter.path, 0, "error")))
              ELSE managed_objects(st0, dict_entries, 1)
    IN /\ Cardinality(st.calls) <= MaxSetPowerCalls
       /\ managed_objects_calls' = managed_objects_calls - 1
       /\ active_adapter_found' = st.found
       /\ active_adapter' = st.adapter
       /\ set_power_calls' = st.calls
       /\ step' = Step("on_get_managed_objects_reply", "", st.log)
       /\ UNCHANGED <<halVars, object_manager_signal_watch_id, signal_subscriptions,
                      service_state>>

(***************************************************************************)
(* on_get_managed_objects_reply: the reply to one GetManagedObjects call,  *)
(* an error or the a{oa{sa{sv}}} of objects.                               *)
(***************************************************************************)
on_get_managed_objects_reply(error, dict_entries) ==
    LET st0 == Scan(active_adapter_found, active_adapter, set_power_calls,
                    <<Ev("GetManagedObjects_reply",
                         IF error THEN "" ELSE first_adapter(dict_entries, 1), 0,
                         IF error THEN "error" ELSE "ok")>>)
        st == IF error THEN st0 ELSE managed_objects(st0, dict_entries, 1)
    IN /\ Cardinality(st.calls) <= MaxSetPowerCalls
       /\ managed_objects_calls' = managed_objects_calls - 1
       /\ active_adapter_found' = st.found
       /\ active_adapter' = st.adapter
       /\ set_power_calls' = st.calls
       /\ step' = Step("on_get_managed_objects_reply", "", st.log)
       /\ UNCHANGED <<halVars, object_manager_signal_watch_id, signal_subscriptions,
                      service_state>>

\* The replies of the bus: the objects BlueZ manages, in the reply's order.
ManagedObjects ==
    { <<>> }
    \cup { << <<"/org/bluez/hci0", d>> >> : d \in InterfaceDicts }
    \cup { << <<"/org/bluez", NoAdapter>>, <<"/org/bluez/hci1", Adapter(Powered)>> >>,
            << <<"/org/bluez/hci0", Adapter(NoAddress)>>,
               <<"/org/bluez/hci1", Adapter(Unpowered)>> >>,
            << <<"/org/bluez/hci0", Adapter(Unpowered)>>,
               <<"/org/bluez/hci1", Adapter(Powered)>> >>,
            << <<"/org/bluez/hci1", Adapter(Odd)>>,
               <<"/org/bluez/hci0", Adapter(Powered)>> >> }

ManagedObjectsReply ==
    /\ managed_objects_calls > 0
    /\ \/ on_get_managed_objects_reply(TRUE, <<>>)
       \/ \E dict_entries \in ManagedObjects :
              on_get_managed_objects_reply(FALSE, dict_entries)

Next ==
    \/ HalInit
    \/ HalDeinit
    \/ SetAdapterPower
    \/ SetPowerReply
    \/ BluezAppeared
    \/ BluezVanished
    \/ InterfacesAdded
    \/ InterfacesRemoved
    \/ ManagedObjectsReply

Spec == Init /\ [][Next]_vars

(***************************************************************************)
(* The same program on a bus that answers and a main loop that keeps       *)
(* running: the completion of every call g_dbus_connection_call has sent   *)
(* (lines 482-493) is eventually dispatched to on_set_power_reply.         *)
(***************************************************************************)
CallIds == 1..MaxSetPowerCalls

SetPowerReplyOf(id) ==
    \E data \in set_power_calls, error \in BOOLEAN :
        /\ data.id = id
        /\ data.sent
        /\ on_set_power_reply(data, error)

FairSpec == Spec /\ \A id \in CallIds : WF_vars(SetPowerReplyOf(id))

(***************************************************************************)
(* Properties.                                                             *)
(***************************************************************************)
Log == step.log
Entries(ev) == { i \in 1..Len(Log) : Log[i].ev = ev }
Count(ev) == Cardinality(Entries(ev))

\* C1: the registry holds at most one adapter, and the adapter it holds has
\* a non-empty address: an action registers at most one adapter, the one
\* registered is the one held afterwards, and an empty slot is zeroed.
C1_OneAdapterWithAddress ==
    /\ active_adapter_found => Len(active_adapter.address) > 0
    /\ ~active_adapter_found => active_adapter = ZeroAdapterInfo
    /\ Count("registered") <= 1
    /\ \A i \in Entries("registered") :
           active_adapter_found /\ active_adapter.path = Log[i].path

C1_Witness ==
    /\ active_adapter_found
    /\ step.op = "on_object_manager_signal"
    /\ Count("registered") = 1
    /\ Count("discarded") = 0

\* C2: first wins: while an adapter is registered its record does not change,
\* whatever candidates signals and enumeration replies deliver; the slot is
\* only ever emptied, and only by a removal of the active adapter's path or
\* by a service appear/vanish notification.
C2_FirstWins ==
    [][active_adapter_found =>
          \/ active_adapter_found' /\ active_adapter' = active_adapter
          \/ /\ ~active_adapter_found'
             /\ active_adapter' = ZeroAdapterInfo
             /\ \/ step'.op \in {"on_bluez_appeared", "on_bluez_vanished"}
                \/ /\ step'.op = "on_object_manager_signal"
                   /\ step'.log[1].ev = "InterfacesRemoved"
                   /\ step'.log[1].path = active_adapter.path]_vars

\* a candidate for another path was rejected and the first adapter is kept
C2_Witness ==
    /\ active_adapter_found
    /\ \E i \in Entries("ignored") : Log[i].path # active_adapter.path

\* C3: right after a service-vanished or service-appeared notification is
\* handled the registry is empty.
C3_EmptyAfterServiceChange ==
    step.op \in {"on_bluez_vanished", "on_bluez_appeared"} =>
        ~active_adapter_found /\ active_adapter = ZeroAdapterInfo

\* the notification found an adapter registered and cleared it
C3_Witness ==
    /\ step.op = "on_bluez_vanished"
    /\ \E i \in Entries("cleared") : Log[i].path \in Paths
    /\ ~active_adapter_found

\* C4: ble_hal_init on an initialized HAL returns success and changes nothing.
C4_SecondInitNoOp ==
    [][(hal_initialized /\ step'.op = "ble_hal_init") =>
          /\ step'.ret = BLE_HAL_SUCCESS
          /\ UNCHANGED <<halVars, object_manager_signal_watch_id, active_adapter,
                         active_adapter_found, signal_subscriptions,
                         managed_objects_calls, set_power_calls, service_state>>]_vars

\* a second init that passed another config than the one stored
C4_Witness ==
    /\ hal_initialized
    /\ step.op = "ble_hal_init"
    /\ \E i \in Entries("already_initialized") :
           Log[i].path # hal_global_config.global_event_cb

\* C5: ble_hal_set_adapter_power on a HAL that is not initialized (or has no
\* connection) returns NOT_INITIALIZED, invokes the callback, if one was
\* passed, exactly once with NOT_INITIALIZED before it returns, allocates no
\* SetPowerAsyncData and issues no bus call.
C5_NotInitializedRejected ==
    (step.op = "ble_hal_set_adapter_power" /\ (~hal_initialized \/ dbus_conn = 0)) =>
        /\ step.ret = BLE_HAL_ERROR_NOT_INITIALIZED
        /\ Count("g_new") = 0
        /\ Count("call_Set_Powered") = 0
        /\ Count("result_cb") = (IF Log[1].status = NULL THEN 0 ELSE 1)
        /\ \A i \in Entries("result_cb") :
               /\ Log[i].path = Log[1].status
               /\ Log[i].status = BLE_HAL_ERROR_NOT_INITIALIZED
               /\ \E j \in Entries("return") : i < j

C5_Witness ==
    /\ step.op = "ble_hal_set_adapter_power"
    /\ ~hal_initialized
    /\ step.ret = BLE_HAL_ERROR_NOT_INITIALIZED
    /\ Count("result_cb") = 1

\* C6: ble_hal_set_adapter_power on an initialized HAL with a NULL or an
\* empty path returns INVALID_PARAMS, invokes the callback once with
\* INVALID_PARAMS before it returns, allocates nothing and issues no bus call.
C6_EmptyOrNullPathRejected ==
    (/\ step.op = "ble_hal_set_adapter_power"
     /\ hal_initialized /\ dbus_conn # 0
     /\ Log[1].path \in {NULL, ""}) =>
        /\ step.ret = BLE_HAL_ERROR_INVALID_PARAMS
        /\ Count("g_new") = 0
        /\ Count("call_Set_Powered") = 0
        /\ Count("result_cb") = (IF Log[1].status = NULL THEN 0 ELSE 1)
        /\ \A i \in Entries("result_cb") :
               /\ Log[i].status = BLE_HAL_ERROR_INVALID_PARAMS
               /\ \E j \in Entries("return") : i < j
        /\ \A c \in set_power_calls : c.adapter_path # Log[1].path

\* C7: a call that returns PENDING has allocated one SetPowerAsyncData and has
\* not invoked the callback; the reply to a call invokes that call's callback
\* at most once, with SUCCESS when the reply is no error and ERROR_DBUS when
\* it is, then frees the SetPowerAsyncData once, after which it is gone.
C7_PendingCallbackOnce ==
    /\ \A i \in Entries("g_new") :
           /\ \A j \in Entries("result_cb") : Log[j].num # Log[i].num
           /\ \E c \in set_power_calls : c.id = Log[i].num
    /\ (step.op = "ble_hal_set_adapter_power" /\ step.ret = BLE_HAL_PENDING) =>
           Count("g_new") = 1 /\ Count("result_cb") = 0
    /\ step.op = "on_set_power_reply" =>
           /\ Count("result_cb") <= 1
           /\ \A i \in Entries("result_cb") :
                  /\ Log[i].num = Log[1].num
                  /\ Log[i].status = (IF Log[1].status = "error"
                                      THEN BLE_HAL_ERROR_DBUS ELSE BLE_HAL_SUCCESS)
                  /\ \A j \in Entries("g_free") : i < j
           /\ Count("g_free") = 1
           /\ \A j \in Entries("g_free") : Log[j].num = Log[1].num
           /\ \A c \in set_power_calls : c.id # Log[1].num

\* the callback of a pending call was told of a D-Bus error
C7_Witness ==
    /\ step.op = "on_set_power_reply"
    /\ \E i \in Entries("result_cb") :
           Log[i].path = "app_result_cb" /\ Log[i].status = BLE_HAL_ERROR_DBUS

\* C8: every registration of an unpowered adapter issues exactly one
\* Powered = true request for its path, every registration of a powered
\* adapter none.
C8_AutoPowerOn ==
    \A i \in Entries("registered") :
        LET requests == { j \in Entries("call_Set_Powered") :
                            Log[j].path = Log[i].path /\ Log[j].status = "true" }
        IN Cardinality(requests) = (IF Log[i].status = "off" THEN 1 ELSE 0)

\* C9: SERVICE_UP is delivered after the subscription was attempted in the
\* same handler, and when the subscription succeeded its handle is held at
\* that moment.
C9_ServiceUpAfterSubscribe ==
    step.op = "on_bluez_appeared" =>
        \A i \in Entries("global_event_cb") :
            /\ Log[i].status = BLE_HAL_EVENT_BLUEZ_SERVICE_UP
            /\ \E j \in Entries("subscribe") :
                   /\ j < i
                   /\ Log[j].status = "ok" =>
                          (Log[i].num = Log[j].num /\ Log[i].num # 0)

C9_Witness ==
    /\ step.op = "on_bluez_appeared"
    /\ \E i \in Entries("global_event_cb") :
           Log[i].num # 0 /\ Log[i].num = object_manager_signal_watch_id

\* C10: GetManagedObjects is called only right after a successful subscription
\* and with that subscription held, and every successful subscription is
\* followed at once by exactly one GetManagedObjects call.
C10_SubscribeThenEnumerate ==
    /\ \A i \in Entries("call_GetManagedObjects") :
           /\ i > 1
           /\ Log[i - 1].ev = "subscribe"
           /\ Log[i - 1].status = "ok"
           /\ Log[i].num = Log[i - 1].num
           /\ Log[i].num # 0
           /\ Log[i].num \in signal_subscriptions
    /\ \A j \in Entries("subscribe") :
           Log[j].status = "ok" =>
               /\ j < Len(Log)
               /\ Log[j + 1].ev = "call_GetManagedObjects"
               /\ Count("call_GetManagedObjects") = 1

C10_Witness ==
    /\ step.op = "on_bluez_appeared"
    /\ Count("call_GetManagedObjects") = 1
    /\ managed_objects_calls > 0

\* C11: an adapter is registered once: while it is registered, no signal and
\* no enumeration reply registers anything or requests a power-on, and unless
\* the signal is a removal the record stays as it is; so the enumeration
\* reply and a duplicate InterfacesAdded for the same object, in either
\* order, give one registration and at most one power-on request.
C11_RegisteredOnce ==
    [][(/\ active_adapter_found
        /\ step'.op \in {"on_object_manager_signal", "on_get_managed_objects_reply"})
       => /\ \A i \in 1..Len(step'.log) :
                 step'.log[i].ev \notin {"registered", "g_new", "call_Set_Powered"}
          /\ set_power_calls' = set_power_calls
          /\ step'.log[1].ev # "InterfacesRemoved" =>
                 active_adapter_found' /\ active_adapter' = active_adapter]_vars

\* a duplicate InterfacesAdded for the registered object was delivered
C11_Witness ==
    /\ active_adapter_found
    /\ step.op = "on_object_manager_signal"
    /\ Log[1].ev = "InterfacesAdded"
    /\ Log[1].path = active_adapter.path
    /\ \E i \in Entries("ignored") : Log[i].path = active_adapter.path
    /\ Count("registered") = 0

\* C12: a removal that names the active adapter's path and lists
\* org.bluez.Adapter1 empties the registry; and with the registry empty, as
\* the removal leaves it, an InterfacesAdded from org.bluez with an adapter
\* that has a non-empty address registers that path, with exactly one
\* Powered = true request for it if the adapter is unpowered.
C12_RemovedThenAddedAgain ==
    [][/\ (/\ active_adapter_found
           /\ step'.op = "on_object_manager_signal"
           /\ step'.log[1] = Ev("InterfacesRemoved", active_adapter.path, 1, BLUEZ))
          => ~active_adapter_found' /\ active_adapter' = ZeroAdapterInfo
       /\ (/\ ~active_adapter_found
           /\ step'.op = "on_object_manager_signal"
           /\ step'.log[1].ev = "InterfacesAdded"
           /\ step'.log[1].num = 1
           /\ step'.log[1].status = BLUEZ)
          => /\ active_adapter_found'
             /\ active_adapter'.path = step'.log[1].path
             /\ Len(active_adapter'.address) > 0
             /\ ~active_adapter'.powered =>
                    Cardinality({ j \in 1..Len(step'.log) :
                                    step'.log[j] = Ev("call_Set_Powered",
                                                      active_adapter'.path,
                                                      step'.log[j].num, "true") }) = 1
      ]_vars

\* C13: deinit releases the signal subscription: right after ble_hal_deinit
\* has run on an initialized HAL no subscription handle is held and none is
\* registered on the bus, and signals are handled only while the HAL is
\* initialized.
C13_DeinitReleasesSubscription ==
    /\ (step.op = "ble_hal_deinit" /\ Len(Log) > 0) =>
           object_manager_signal_watch_id = 0 /\ signal_subscriptions = {}
    /\ step.op = "on_object_manager_signal" => hal_initialized

\* C14: the registry is rebuilt on every init: it is empty while the HAL is
\* not initialized, and right after an init that initialized the HAL, before
\* any discovery result of the new session.
C14_RegistryRebuiltOnInit ==
    /\ ~hal_initialized => ~active_adapter_found /\ active_adapter = ZeroAdapterInfo
    /\ (/\ step.op = "ble_hal_init"
        /\ step.ret = BLE_HAL_SUCCESS
        /\ Count("already_initialized") = 0)
       => ~active_adapter_found /\ active_adapter = ZeroAdapterInfo

\* the program's variables, without the record of the last action
programVars == <<halVars, object_manager_signal_watch_id, active_adapter,
                 active_adapter_found, signal_subscriptions, managed_objects_calls,
                 set_power_calls, service_state>>

\* C15: ble_hal_deinit on a HAL that is not initialized (never initialized,
\* after a failed init, or already deinitialized) changes no state, and a
\* second deinit right after a deinit changes nothing.
C15_DeinitIdempotent ==
    [][/\ (~hal_initialized /\ step'.op = "ble_hal_deinit")
          => UNCHANGED programVars
       /\ (step.op = "ble_hal_deinit" /\ step'.op = "ble_hal_deinit")
          => UNCHANGED programVars]_vars

\* a deinit on a HAL that had been initialized, used and deinitialized
C15_Witness ==
    /\ step.op = "ble_hal_deinit"
    /\ Len(Log) = 0
    /\ ~hal_initialized
    /\ object_manager_signal_watch_id # 0

\* C16: a failed init leaves nothing behind: when ble_hal_init returns
\* INVALID_PARAMS or ERROR_DBUS the HAL is not initialized, holds no
\* connection, no name watch, no internal and no application loop, and the
\* stored configuration is the one of before the call.
C16_FailedInitLeavesNothing ==
    [][(/\ step'.op = "ble_hal_init"
        /\ step'.ret \in {BLE_HAL_ERROR_INVALID_PARAMS, BLE_HAL_ERROR_DBUS})
       => /\ ~hal_initialized'
          /\ dbus_conn' = 0
          /\ bluez_name_watch_id' = 0
          /\ internal_loop' = 0
          /\ app_provided_loop' = 0
          /\ hal_global_config' = hal_global_config]_vars

\* C17: the completion of a set-power call that arrives after deinit is
\* ignored: on_set_power_reply running while the HAL is not initialized calls
\* no result callback.
C17_ReplyAfterDeinitIgnored ==
    (step.op = "on_set_power_reply" /\ ~hal_initialized) => Count("result_cb") = 0

\* C18: at most one signal subscription is live, and it is the one whose
\* handle is held: on_bluez_appeared releases the subscription it still holds
\* before it creates a new one, so none is leaked or doubled.
C18_OneSubscription ==
    /\ Cardinality(signal_subscriptions) <= 1
    /\ signal_subscriptions \subseteq {object_manager_signal_watch_id}
    /\ step.op = "on_bluez_appeared" =>
           \A j \in Entries("subscribe") :
               Log[1].num # 0 =>
                   \E i \in Entries("unsubscribe") : i < j /\ Log[i].num = Log[1].num

\* a second appear with no vanish in between: the subscription of the first
\* was released and a new one is live
C18_Witness ==
    /\ step.op = "on_bluez_appeared"
    /\ Log[1].num # 0
    /\ Count("unsubscribe") = 1
    /\ object_manager_signal_watch_id # 0
    /\ signal_subscriptions = {object_manager_signal_watch_id}

\* C19: a failed signal subscription is not fatal: the handler issues no
\* GetManagedObjects call, leaves the subscription handle unset and the HAL
\* initialized, and still delivers SERVICE_UP to the configured callback,
\* once and after the failed attempt.
C19_SubscribeFailureNonFatal ==
    \A j \in Entries("subscribe") :
        Log[j].status = "failed" =>
            /\ step.op = "on_bluez_appeared"
            /\ Count("call_GetManagedObjects") = 0
            /\ object_manager_signal_watch_id = 0
            /\ hal_initialized
            /\ dbus_conn # 0 /\ bluez_name_watch_id # 0
            /\ hal_global_config.global_event_cb # NULL =>
                   /\ Count("global_event_cb") = 1
                   /\ \A i \in Entries("global_event_cb") :
                          /\ i > j
                          /\ Log[i].path = hal_global_config.global_event_cb
                          /\ Log[i].status = BLE_HAL_EVENT_BLUEZ_SERVICE_UP

\* the subscription failed and the application was told of the service
C19_Witness ==
    /\ step.op = "on_bluez_appeared"
    /\ \E j \in Entries("subscribe") : Log[j].status = "failed"
    /\ \E i \in Entries("global_event_cb") :
           Log[i].status = BLE_HAL_EVENT_BLUEZ_SERVICE_UP
    /\ managed_objects_calls = 0

\* C20: a failed remote call is not escalated.  A failed GetManagedObjects
\* reply does nothing: registry, subscription, initialized flag and pending
\* calls stay as they are and no callback is called.  A failed set-power reply
\* calls only the callback stored with that call, with ERROR_DBUS, frees that
\* call, delivers no global event, leaves registry and subscription as they
\* are and issues no new call.
C20_RemoteErrorNotEscalated ==
    [][/\ (/\ step'.op = "on_get_managed_objects_reply"
           /\ step'.log[1].status = "error")
          => /\ UNCHANGED <<active_adapter, active_adapter_found,
                            object_manager_signal_watch_id, signal_subscriptions,
                            hal_initialized, set_power_calls, service_state>>
             /\ Len(step'.log) = 1
       /\ (/\ step'.op = "on_set_power_reply"
           /\ step'.log[1].status = "error")
          => /\ UNCHANGED <<active_adapter, active_adapter_found,
                            object_manager_signal_watch_id, signal_subscriptions,
                            hal_initialized, managed_objects_calls, service_state>>
             /\ set_power_calls' \subseteq set_power_calls
             /\ \A i \in 1..Len(step'.log) :
                    /\ step'.log[i].ev \in {"reply", "result_cb", "g_free"}
                    /\ step'.log[i].ev = "result_cb" =>
                           /\ step'.log[i].status = BLE_HAL_ERROR_DBUS
                           /\ \E data \in set_power_calls \ set_power_calls' :
                                  /\ data.id = step'.log[i].num
                                  /\ data.app_callback = step'.log[i].path
      ]_vars

\* a failed enumeration reply was handled while an adapter was registered
C20_Witness ==
    /\ step.op = "on_get_managed_objects_reply"
    /\ Log[1].status = "error"
    /\ active_adapter_found
    /\ object_manager_signal_watch_id # 0
    /\ hal_initialized

\* C21: an InterfacesRemoved signal leaves the registry as it is unless its
\* object path is the active adapter's path and org.bluez.Adapter1 is among
\* the removed interface names.
C21_RemovalFrame ==
    [][(/\ step'.op = "on_object_manager_signal"
        /\ step'.log[1].ev = "InterfacesRemoved"
        /\ ~(/\ active_adapter_found
             /\ step'.log[1].path = active_adapter.path
             /\ step'.log[1].num = 1))
       => /\ UNCHANGED <<active_adapter, active_adapter_found>>
          /\ Len(step'.log) = 1]_vars

\* only another interface of the active adapter's path was removed
C21_Witness ==
    /\ step.op = "on_object_manager_signal"
    /\ Log[1].ev = "InterfacesRemoved"
    /\ Log[1].status = BLUEZ
    /\ Log[1].num = 0
    /\ active_adapter_found
    /\ Log[1].path = active_adapter.path

\* C22: under FairSpec every set-power call that returned PENDING and was
\* sent to the bus is eventually completed: its callback, if it has one, is
\* called and its SetPowerAsyncData is freed, whatever happens to the service,
\* the adapter or the HAL in the meantime.
C22_PendingEventuallyCompleted ==
    \A id \in CallIds : \A cb \in {NULL, "app_result_cb", "generic_result_cb"} :
        (\E data \in set_power_calls :
             data.id = id /\ data.sent /\ data.app_callback = cb)
        ~> (/\ step.op = "on_set_power_reply"
            /\ Log[1].num = id
            /\ cb # NULL => \E i \in Entries("result_cb") :
                                Log[i].path = cb /\ Log[i].num = id
            /\ \E i \in Entries("g_free") : Log[i].num = id
            /\ \A data \in set_power_calls : data.id # id)

\* the call was completed after the service had vanished
C22_Witness ==
    /\ step.op = "on_set_power_reply"
    /\ service_state = "Down"
    /\ Count("result_cb") = 1
    /\ Count("g_free") = 1
    /\ set_power_calls = {}

\* C23: while the service is down (before the first appeared notification,
\* and from a vanished notification to the next appeared one) the registry
\* is empty, whatever replies are delivered in the meantime.
C23_EmptyWhileDown ==
    service_state = "Down" =>
        ~active_adapter_found /\ active_adapter = ZeroAdapterInfo

\* C24: the application's global callback is called only while the HAL is
\* initialized, by the appeared and vanished handlers; a deinit of an
\* initialized HAL leaves the stored configuration zeroed and no name watch.
C24_EventsOnlyWhileInitialized ==
    /\ \A i \in Entries("global_event_cb") :
           /\ hal_initialized
           /\ step.op \in {"on_bluez_appeared", "on_bluez_vanished"}
           /\ Log[i].path = hal_global_config.global_event_cb
    /\ (step.op = "ble_hal_deinit" /\ Len(Log) > 0) =>
           /\ hal_global_config = ZeroConfig
           /\ bluez_name_watch_id = 0
           /\ ~hal_initialized
    /\ step.op \in {"on_bluez_appeared", "on_bluez_vanished"} => hal_initialized

\* SERVICE_DOWN was delivered to the callback of the initialized HAL while an
\* enumeration was in flight
C24_Witness ==
    /\ step.op = "on_bluez_vanished"
    /\ \E i \in Entries("global_event_cb") :
           Log[i].status = BLE_HAL_EVENT_BLUEZ_SERVICE_DOWN
    /\ active_adapter_found = FALSE
    /\ managed_objects_calls > 0
    /\ hal_initialized

\* C25: a candidate without a usable address is discarded: a signal or reply
\* that registers nothing leaves the registry and the pending calls as they
\* are and requests no power-on, and one that carries no adapter with a
\* non-empty string Address registers nothing.  It does not block selection:
\* with the registry empty, the first adapter with a usable address of a
\* reply, whatever precedes it, or the one of an InterfacesAdded signal, is
\* registered.
C25_NoAddressDiscarded ==
    [][LET log == step'.log
           added == step'.op = "on_object_manager_signal"
                    /\ log[1].ev = "InterfacesAdded" /\ log[1].status = BLUEZ
           reply == step'.op = "on_get_managed_objects_reply"
                    /\ log[1].status = "ok"
           registers == \E i \in 1..Len(log) : log[i].ev = "registered"
       IN /\ ((added \/ reply) /\ ~registers)
             => /\ UNCHANGED <<active_adapter, active_adapter_found, set_power_calls>>
                /\ \A i \in 1..Len(log) :
                       log[i].ev \notin {"g_new", "call_Set_Powered", "result_cb"}
          /\ (added /\ log[1].num = 0) => ~registers
          /\ (reply /\ log[1].path = "") => ~registers
          /\ (~active_adapter_found /\ added /\ log[1].num = 1)
             => active_adapter_found' /\ active_adapter'.path = log[1].path
          /\ (~active_adapter_found /\ reply /\ log[1].path # "")
             => active_adapter_found' /\ active_adapter'.path = log[1].path
      ]_vars

\* a reply whose first adapter has no address and whose second one has: the
\* first was discarded and the second registered
C25_Witness ==
    /\ step.op = "on_get_managed_objects_reply"
    /\ \E i \in Entries("discarded") :
           \E j \in Entries("registered") :
               /\ i < j
               /\ Log[i].path # Log[j].path
               /\ active_adapter.path = Log[j].path
    /\ active_adapter_found

====
